---- MODULE Spec2Model ----
(***************************************************************************)
(* Model of limix.stats.Chi2mixture (src/limix/stats/chi2mixture.py):      *)
(* the constructor, estimate_chi2mixture and sf, with the numpy/scipy      *)
(* primitives they call.  Floats are fixed-point numbers (unit 1/U) tagged *)
(* with their kind (finite, +inf, -inf, nan); exact quantities (counts,    *)
(* the mixture, the grid values, the quantiles) are rationals.             *)
(***************************************************************************)
EXTENDS Integers, Sequences, FiniteSets

\* ------------------------------------------------------------ bounds

\* Longest sample handed to estimate_chi2mixture.
MaxLen == 3

\* Statistics are the integers 0..MaxStat.
MaxStat == 2

\* Longest vector handed to sf.
MaxSfLen == 2

\* ------------------------------------------------------------ numbers

\* Fixed-point unit of the float model: a finite float x is the integer x*U.
U == 10^4

\* Unit of a squared error: d*d (d in 1/U) is kept in 1/(U*U/SqDiv).
SqDiv == 10^2

Abs(a) == IF a < 0 THEN -a ELSE a

Max(a, b) == IF a < b THEN b ELSE a

Min(a, b) == IF a < b THEN a ELSE b

RECURSIVE GCD(_, _)
GCD(a, b) == IF b = 0 THEN Abs(a) ELSE GCD(b, a % Abs(b))

\* The rational n/d (d # 0) in lowest terms with a positive denominator.
Rat(n, d) ==
    LET g == GCD(n, d)
        s == IF d < 0 THEN -1 ELSE 1
    IN  [num |-> s * (n \div g), den |-> s * (d \div g)]

\* Floats: kind "fin" carries the value v (in 1/U), the others carry 0.
Fin(v) == [k |-> "fin", v |-> v]
PInf == [k |-> "inf", v |-> 0]
NInf == [k |-> "ninf", v |-> 0]
NaN == [k |-> "nan", v |-> 0]

\* a*b/U without leaving 32 bits (a, b >= 0).
MulFix(a, b) == ((a \div 100) * b + ((a % 100) * b) \div 100) \div 100

\* exp(-1), ln 2 and ln 10 in 1/U.
EInv == 3679
Ln2 == 6931
Ln10 == 23026

\* sum_{k>=kk} (-f)^k / k!  given term = f^(kk-1)/(kk-1)!, alternating sign sgn.
RECURSIVE ExpTail(_, _, _, _)
ExpTail(f, kk, term, sgn) ==
    IF kk > 9 \/ term = 0 THEN 0
    ELSE LET t == (term * f) \div (U * kk)
         IN  sgn * t + ExpTail(f, kk + 1, t, -sgn)

RECURSIVE PowFix(_, _)
PowFix(b, n) == IF n = 0 THEN U ELSE MulFix(PowFix(b, n - 1), b)

\* exp(-h) for h = H/U >= 0.
ExpNeg(H) ==
    LET n == H \div U
        f == H % U
    IN  MulFix(PowFix(EInv, n), U + ExpTail(f, 1, U, -1))

\* sum_{k=kk}^{m-1} h^k/k!  given term = h^(kk-1)/(kk-1)!.
RECURSIVE PolyTail(_, _, _, _)
PolyTail(H, kk, m, term) ==
    IF kk >= m THEN 0
    ELSE LET t == MulFix(term, H) \div kk
         IN  t + PolyTail(H, kk + 1, m, t)

\* Mantissa/exponent: V = m * 2^e with U <= m < 2U.
RECURSIVE Norm2(_, _)
Norm2(V, e) ==
    IF V >= 2 * U THEN Norm2(V \div 2, e + 1)
    ELSE IF V < U THEN Norm2(V * 2, e - 1)
    ELSE [m |-> V, e |-> e]

\* ln(m/U) for U <= m < 2U: 2 atanh((m-U)/(m+U)).
LnMant(m) ==
    LET z == ((m - U) * U) \div (m + U)
        z2 == (z * z) \div U
        p3 == (z * z2) \div U
        p5 == (p3 * z2) \div U
        p7 == (p5 * z2) \div U
        p9 == (p7 * z2) \div U
    IN  2 * (z + p3 \div 3 + p5 \div 5 + p7 \div 7 + p9 \div 9)

\* log10(V/U) for V > 0, in 1/U.
Log10Fix(V) ==
    LET ne == Norm2(V, 0)
    IN  ((ne.e * Ln2 + LnMant(ne.m)) * U) \div Ln10

\* ------------------------------------------------------------ numpy

\* a[start:stop] of Python (step 1; negative indices count from the end).
PyIndex(i, L) == IF i < 0 THEN Max(i + L, 0) ELSE Min(i, L)

PySlice(s, start, stop) ==
    SubSeq(s, PyIndex(start, Len(s)) + 1, PyIndex(stop, Len(s)))

Neg(s) == [i \in 1..Len(s) |-> -s[i]]

\* sp.sort: ascending, by insertion.
RECURSIVE Insert(_, _)
Insert(s, x) ==
    IF s = <<>> THEN <<x>>
    ELSE IF x <= Head(s) THEN <<x>> \o s
    ELSE <<Head(s)>> \o Insert(Tail(s), x)

RECURSIVE Sort(_)
Sort(s) == IF s = <<>> THEN <<>> ELSE Insert(Sort(Tail(s)), Head(s))

\* sp.sum(lrt > tol) and the count behind (lrt <= tol).mean().
CountGreater(lrt, tol) == Cardinality({i \in 1..Len(lrt) : lrt[i] > tol})

CountLessEqual(lrt, tol) == Cardinality({i \in 1..Len(lrt) : lrt[i] <= tol})

\* sp.linspace(start, stop, num) for integer end points, as rationals.
Linspace(start, stop, num) ==
    IF num <= 0 THEN <<>>
    ELSE IF num = 1 THEN <<Rat(start, 1)>>
    ELSE [i \in 1..num |->
             Rat(start * (num - 1) + (i - 1) * (stop - start), num - 1)]

\* int(sp.ceil(qmax * n)) for the rational qmax.
CeilMul(qmax, n) == -((-(qmax.num * n)) \div qmax.den)

\* ------------------------------------------------------------ scipy.stats

\* st.chi2.sf(x / scale, dof) for an integer x and rational scale and dof.
\* dof <= 0 is outside the distribution's domain (nan); a positive dof is an
\* even integer, for which sf(y) = exp(-y/2) * sum_{k < dof/2} (y/2)^k / k!.
Chi2Sf(x, scale, dof) ==
    IF dof.num <= 0 THEN NaN
    ELSE IF scale.num = 0 /\ x = 0 THEN NaN
    ELSE IF scale.num = 0 THEN (IF x > 0 THEN Fin(0) ELSE Fin(U))
    ELSE IF x * scale.num < 0 THEN Fin(U)
    ELSE LET H == (Abs(x) * scale.den * U) \div (2 * Abs(scale.num))
             m == CASE dof.den = 1 /\ dof.num % 2 = 0 -> dof.num \div 2
         IN  Fin(MulFix(ExpNeg(H), U + PolyTail(H, 1, m, U)))

\* sp.log10 of a float.
Log10F(p) ==
    IF p.k = "nan" THEN NaN
    ELSE IF p.k = "inf" THEN PInf
    ELSE IF p.k = "ninf" \/ p.v < 0 THEN NaN
    ELSE IF p.v = 0 THEN NInf
    ELSE Fin(Log10Fix(p.v))

\* sp.log10 of a rational quantile.
Log10Q(q) ==
    IF q.num < 0 THEN NaN
    ELSE IF q.num = 0 THEN NInf
    ELSE Fin(Log10Fix((q.num * U) \div q.den))

\* (a - b)**2 of two floats.
SubSq(a, b) ==
    IF a.k = "nan" \/ b.k = "nan" THEN NaN
    ELSE IF a.k = "fin" /\ b.k = "fin"
         THEN Fin(((a.v - b.v) * (a.v - b.v)) \div SqDiv)
    ELSE IF a.k = b.k THEN NaN
    ELSE PInf

RECURSIVE SumV(_)
SumV(s) == IF s = <<>> THEN 0 ELSE Head(s).v + SumV(Tail(s))

\* sp.mean of a vector of non-negative floats (nan for the empty vector).
Mean(s) ==
    IF s = <<>> THEN NaN
    ELSE IF \E i \in 1..Len(s) : s[i].k = "nan" THEN NaN
    ELSE IF \E i \in 1..Len(s) : s[i].k = "inf" THEN PInf
    ELSE Fin(SumV(s) \div Len(s))

\* Shapes (a,) and (b,) broadcast unless they differ and neither is 1.
Broadcastable(a, b) == a = b \/ a = 1 \/ b = 1

BroadcastLen(a, b) == IF a = 1 THEN b ELSE a

\* a < b on floats, as the comparison of line 116 (False when either is nan).
FLess(a, b) ==
    /\ a.k # "nan" /\ b.k # "nan"
    /\ \/ a.k = "ninf" /\ b.k # "ninf"
       \/ a.k = "fin" /\ b.k = "inf"
       \/ a.k = "fin" /\ b.k = "fin" /\ a.v < b.v

\* ------------------------------------------------------------ Chi2mixture

\* An attribute that was never assigned is <<>>, an assigned one is <<value>>.
Unset == <<>>

Set(v) == <<v>>

\* Chi2mixture.__init__: every argument is stored as given; nothing is checked.
NewObject(scale_min, scale_max, dof_min, dof_max, n_intervals, qmax, tol) ==
    [scale_min |-> scale_min, scale_max |-> scale_max,
     dof_min |-> dof_min, dof_max |-> dof_max,
     qmax |-> qmax, n_intervals |-> n_intervals, tol |-> tol,
     mixture |-> Unset, scale |-> Unset, dof |-> Unset]

\* Mixture with the comparison of sf (lrt < tol) in place of lrt <= tol.
MixtureStrict(lrt, tol) ==
    Rat(Len(lrt) - Cardinality({i \in 1..Len(lrt) : lrt[i] < tol}), Len(lrt))

\* step 1: self.mixture = 1 - (lrt <= self.tol).mean()
Mixture(lrt, tol) == Rat(Len(lrt) - CountLessEqual(lrt, tol), Len(lrt))

\* n_false = sp.sum(lrt > self.tol)
NFalse(lrt, tol) == CountGreater(lrt, tol)

\* n_fitting = int(sp.ceil(self.qmax * n_false))
NFitting(qmax, n_false) == CeilMul(qmax, n_false)

\* lrt_sorted = -sp.sort(-lrt)[:n_fitting]
LrtSorted(lrt, n_fitting) == Neg(PySlice(Sort(Neg(lrt)), 0, n_fitting))

\* q = sp.linspace(0, 1, n_false)[1:n_fitting + 1]
Quantiles(n_false, n_fitting) ==
    PySlice(Linspace(0, 1, n_false), 1, n_fitting + 1)

\* log_q = sp.log10(q)
RECURSIVE LogQ(_)
LogQ(q) == IF q = <<>> THEN <<>> ELSE <<Log10Q(Head(q))>> \o LogQ(Tail(q))

\* log_p = sp.log10(st.chi2.sf(lrt_sorted / scale, dof))
RECURSIVE LogP(_, _, _)
LogP(lrt_sorted, scale, dof) ==
    IF lrt_sorted = <<>> THEN <<>>
    ELSE <<Log10F(Chi2Sf(Head(lrt_sorted), scale, dof))>>
         \o LogP(Tail(lrt_sorted), scale, dof)

\* (log_q - log_p)**2 element by element, a length-1 operand being repeated.
RECURSIVE SquaredDiff(_, _, _, _)
SquaredDiff(log_q, log_p, i, L) ==
    IF i > L THEN <<>>
    ELSE <<SubSq(log_q[IF Len(log_q) = 1 THEN 1 ELSE i],
                 log_p[IF Len(log_p) = 1 THEN 1 ELSE i])>>
         \o SquaredDiff(log_q, log_p, i + 1, L)

\* One grid cell: sp.mean((log_q - sp.log10(st.chi2.sf(lrt_sorted / scale, dof)))**2).
\* Only evaluated where the two shapes broadcast.
CellMSE(log_q, lrt_sorted, scale, dof) ==
    LET log_p == LogP(lrt_sorted, scale, dof)
    IN  Mean(SquaredDiff(log_q, log_p, 1,
                         BroadcastLen(Len(log_q), Len(log_p))))

\* The grids of lines 110 and 112.
ScaleGrid(o) == Linspace(o.scale_min, o.scale_max, o.n_intervals)

DofGrid(o) == Linspace(o.dof_min, o.dof_max, o.n_intervals)

\* Update without line 117: the running minimum is never lowered.
UpdateKeepsInf(acc, mse, scale, dof) ==
    IF FLess(mse, acc.MSE_opt)
    THEN [MSE_opt |-> acc.MSE_opt, scale |-> Set(scale), dof |-> Set(dof),
          hit |-> TRUE]
    ELSE acc

\* Lines 116-119 for one cell: the running minimum and the attributes.
Update(acc, mse, scale, dof) ==
    IF FLess(mse, acc.MSE_opt)
    THEN [MSE_opt |-> mse, scale |-> Set(scale), dof |-> Set(dof), hit |-> TRUE]
    ELSE acc

\* The double loop of lines 109-119 from cell idx on (scale outer, dof inner).
RECURSIVE GridLoop(_, _, _, _, _)
GridLoop(o, log_q, lrt_sorted, idx, acc) ==
    LET n == o.n_intervals
    IN  IF n <= 0 \/ idx >= n * n THEN acc
        ELSE LET scale == ScaleGrid(o)[(idx \div n) + 1]
                 dof == DofGrid(o)[(idx % n) + 1]
                 mse == CellMSE(log_q, lrt_sorted, scale, dof)
             IN  GridLoop(o, log_q, lrt_sorted, idx + 1,
                          Update(acc, mse, scale, dof))

\* Chi2mixture.estimate_chi2mixture(lrt) on object o: the locals, the outcome
\* and the attributes as the call leaves them.
EstimateCall(o, lrt) ==
    LET mixture == Mixture(lrt, o.tol)
        n_false == NFalse(lrt, o.tol)
        n_fitting == NFitting(o.qmax, n_false)
        lrt_sorted == LrtSorted(lrt, n_fitting)
        q == Quantiles(n_false, n_fitting)
        \* sp.zeros rejects a negative size; the first cell's subtraction
        \* rejects shapes that do not broadcast.
        raises == \/ o.n_intervals < 0
                  \/ /\ o.n_intervals > 0
                     /\ ~Broadcastable(Len(q), Len(lrt_sorted))
        start == [MSE_opt |-> PInf, scale |-> o.scale, dof |-> o.dof,
                  hit |-> FALSE]
        end == IF raises THEN start
               ELSE GridLoop(o, LogQ(q), lrt_sorted, 0, start)
    IN  [lrt |-> lrt, mixture |-> mixture, n_false |-> n_false,
         n_fitting |-> n_fitting, lrt_sorted |-> lrt_sorted, q |-> q,
         outcome |-> IF raises THEN "ValueError" ELSE "returned",
         MSE_opt |-> end.MSE_opt, scale |-> end.scale, dof |-> end.dof,
         assigned |-> {"mixture"} \cup
                      (IF end.hit THEN {"scale", "dof"} ELSE {})]

\* _lrt = sp.copy(lrt); _lrt[lrt < self.tol] = 0
Clamp(lrt, tol) == [i \in 1..Len(lrt) |-> IF lrt[i] < tol THEN 0 ELSE lrt[i]]

\* mixture * p for the rational mixture and the float p.
Times(mixture, p) ==
    IF p.k = "fin" THEN Fin((mixture.num * p.v) \div mixture.den) ELSE NaN

\* PValues without the factor self.mixture.
PValuesUnweighted(_lrt, mixture, scale, dof) ==
    [i \in 1..Len(_lrt) |-> Chi2Sf(_lrt[i], scale, dof)]

\* pv = self.mixture * st.chi2.sf(_lrt / self.scale, self.dof)
PValues(_lrt, mixture, scale, dof) ==
    [i \in 1..Len(_lrt) |-> Times(mixture, Chi2Sf(_lrt[i], scale, dof))]

\* Chi2mixture.sf(lrt) on object o: reading an attribute that was never
\* assigned raises AttributeError.
SfCall(o, lrt) ==
    IF o.mixture = Unset \/ o.scale = Unset \/ o.dof = Unset
    THEN [lrt |-> lrt, outcome |-> "AttributeError", pv |-> <<>>]
    ELSE [lrt |-> lrt, outcome |-> "returned",
          pv |-> PValues(Clamp(lrt, o.tol), o.mixture[1], o.scale[1], o.dof[1])]

\* ------------------------------------------------------------ inputs

Q(n, d) == [num |-> n, den |-> d]

\* Constructor arguments: the first three satisfy every documented range,
\* each of the others leaves exactly one of them.
Configs ==
    { NewObject(1, 2, 2, 4, 2, Q(1, 2), 0),
      NewObject(1, 3, 2, 6, 3, Q(1, 1), 1),
      NewObject(1, 2, 2, 4, 2, Q(3, 4), 1),
      NewObject(2, 0, 2, 4, 2, Q(1, 2), 0),
      NewObject(1, 2, 2, 2, 2, Q(1, 2), 0),
      NewObject(1, 2, 2, 4, 0, Q(1, 2), 0),
      NewObject(1, 2, 2, 4, 2, Q(0, 1), 0),
      NewObject(1, 2, 2, 4, 2, Q(3, 2), 0),
      NewObject(1, 2, 2, 4, 2, Q(1, 2), -1) }

SeqsUpTo(S, lo, hi) == UNION {[1..n -> S] : n \in lo..hi}

\* Null statistics handed to estimate_chi2mixture: never empty, listed in
\* non-decreasing order (the call sorts them itself).
Samples ==
    {s \in SeqsUpTo(0..MaxStat, 1, MaxLen) :
        \A i \in 1..(Len(s) - 1) : s[i] <= s[i + 1]}

\* Statistics handed to sf, in any order.
SfInputs == SeqsUpTo(0..MaxStat, 0, MaxSfLen)

\* ------------------------------------------------------------ state

VARIABLES
    self,   \* <<>> before construction, then <<the object's attributes>>
    est,    \* <<>> or <<the last estimate_chi2mixture call, with its locals>>
    res,    \* <<>> or <<the frame of the sf call about to return>>
    et,     \* frame of the thread inside estimate_chi2mixture
    st,     \* frame of the thread inside sf
    wr,     \* for each fitted attribute, the estimate call that wrote it last
    fin,    \* the estimate calls that have returned
    ncalls  \* estimate calls started by the estimating thread

vars == <<self, est, res, et, st, wr, fin, ncalls>>

threads == <<et, st, wr, fin, ncalls>>

Idle == [pc |-> "idle"]

NoWriter == [mixture |-> 0, scale |-> 0, dof |-> 0]

\* ------------------------------------------------------------ one caller

Init ==
    /\ self = <<>>
    /\ est = <<>>
    /\ res = <<>>
    /\ et = Idle
    /\ st = Idle
    /\ wr = NoWriter
    /\ fin = {}
    /\ ncalls = 0

\* chi2mix = Chi2mixture(...)
Construct(c) ==
    /\ self = <<>>
    /\ self' = <<NewObject(c.scale_min, c.scale_max, c.dof_min, c.dof_max,
                           c.n_intervals, c.qmax, c.tol)>>
    /\ UNCHANGED <<est, res, threads>>

\* chi2mix.estimate_chi2mixture(lrt): self.mixture is assigned before anything
\* can raise; self.scale and self.dof are whatever the loop left.
Estimate(lrt) ==
    /\ self # <<>>
    /\ res = <<>>
    /\ LET e == EstimateCall(self[1], lrt)
       IN  /\ self' = <<[self[1] EXCEPT !.mixture = Set(e.mixture),
                                        !.scale = e.scale,
                                        !.dof = e.dof]>>
           /\ est' = <<e>>
    /\ UNCHANGED <<res, threads>>

\* chi2mix.sf(lrt) up to its return statement: reads the object, changes nothing.
Sf(lrt) ==
    /\ self # <<>>
    /\ res = <<>>
    /\ res' = <<SfCall(self[1], lrt)>>
    /\ UNCHANGED <<self, est, threads>>

\* return pv (or the exception leaves sf): the frame is gone.
Return ==
    /\ res # <<>>
    /\ res' = <<>>
    /\ UNCHANGED <<self, est, threads>>

Next ==
    \/ \E c \in Configs : Construct(c)
    \/ \E lrt \in Samples : Estimate(lrt)
    \/ \E lrt \in SfInputs : Sf(lrt)
    \/ Return

Spec == Init /\ [][Next]_vars

\* ------------------------------------------------------------ two threads
\* One thread re-estimates the shared object while another evaluates sf on
\* it.  The object has no lock; a thread switch can fall between any two
\* statements, and inside line 133 between the three attribute loads.

\* Re-estimations a run may start.
MaxEstimates == 2

\* The object the threads share.
SharedObject == NewObject(1, 2, 2, 4, 2, Q(1, 2), 0)

\* The samples on which a call on the shared object returns with all three
\* attributes assigned, so that no sequence of complete calls leaves an
\* attribute of an older call behind.
ThreadSamples ==
    {s \in Samples :
        LET e == EstimateCall(SharedObject, s)
        IN  e.outcome = "returned" /\ e.assigned = {"mixture", "scale", "dof"}}

ThreadSfInputs == {s \in SfInputs : Len(s) = 1}

InitThreads ==
    /\ self = <<SharedObject>>
    /\ est = <<>>
    /\ res = <<>>
    /\ et = Idle
    /\ st = Idle
    /\ wr = NoWriter
    /\ fin = {}
    /\ ncalls = 0

\* The estimating thread enters estimate_chi2mixture(lrt).
EstBegin(lrt) ==
    /\ et.pc = "idle"
    /\ ncalls < MaxEstimates
    /\ ncalls' = ncalls + 1
    /\ et' = [pc |-> "mixture", id |-> ncalls + 1, lrt |-> lrt]
    /\ UNCHANGED <<self, est, res, st, wr, fin>>

\* line 94
EstMixture ==
    /\ et.pc = "mixture"
    /\ self' = <<[self[1] EXCEPT !.mixture = Set(Mixture(et.lrt, self[1].tol))]>>
    /\ wr' = [wr EXCEPT !.mixture = et.id]
    /\ et' = [et EXCEPT !.pc = "locals"]
    /\ UNCHANGED <<est, res, st, fin, ncalls>>

\* lines 95-107
EstLocals ==
    /\ et.pc = "locals"
    /\ LET n_false == NFalse(et.lrt, self[1].tol)
           n_fitting == NFitting(self[1].qmax, n_false)
       IN  et' = [pc |-> "cell", id |-> et.id, lrt |-> et.lrt,
                  lrt_sorted |-> LrtSorted(et.lrt, n_fitting),
                  log_q |-> LogQ(Quantiles(n_false, n_fitting)),
                  idx |-> 0, MSE_opt |-> PInf,
                  scale |-> Q(0, 1), dof |-> Q(0, 1)]
    /\ UNCHANGED <<self, est, res, st, wr, fin, ncalls>>

\* lines 113-117 for the next cell; an exception ends the call.
EstCell ==
    /\ et.pc = "cell"
    /\ 0 < self[1].n_intervals
    /\ et.idx < self[1].n_intervals * self[1].n_intervals
    /\ LET n == self[1].n_intervals
           scale == ScaleGrid(self[1])[(et.idx \div n) + 1]
           dof == DofGrid(self[1])[(et.idx % n) + 1]
       IN  IF ~Broadcastable(Len(et.log_q), Len(et.lrt_sorted))
           THEN et' = Idle
           ELSE LET mse == CellMSE(et.log_q, et.lrt_sorted, scale, dof)
                IN  IF FLess(mse, et.MSE_opt)
                    THEN et' = [et EXCEPT !.pc = "scale", !.MSE_opt = mse,
                                          !.scale = scale, !.dof = dof]
                    ELSE et' = [et EXCEPT !.idx = et.idx + 1]
    /\ UNCHANGED <<self, est, res, st, wr, fin, ncalls>>

\* line 118
EstSetScale ==
    /\ et.pc = "scale"
    /\ self' = <<[self[1] EXCEPT !.scale = Set(et.scale)]>>
    /\ wr' = [wr EXCEPT !.scale = et.id]
    /\ et' = [et EXCEPT !.pc = "dof"]
    /\ UNCHANGED <<est, res, st, fin, ncalls>>

\* line 119
EstSetDof ==
    /\ et.pc = "dof"
    /\ self' = <<[self[1] EXCEPT !.dof = Set(et.dof)]>>
    /\ wr' = [wr EXCEPT !.dof = et.id]
    /\ et' = [et EXCEPT !.pc = "cell", !.idx = et.idx + 1]
    /\ UNCHANGED <<est, res, st, fin, ncalls>>

\* The loops are exhausted: estimate_chi2mixture returns.
EstReturn ==
    /\ et.pc = "cell"
    /\ \/ self[1].n_intervals <= 0
       \/ et.idx >= self[1].n_intervals * self[1].n_intervals
    /\ et' = Idle
    /\ fin' = fin \cup {et.id}
    /\ UNCHANGED <<self, est, res, st, wr, ncalls>>

\* The evaluating thread enters sf(lrt): lines 131-132.
SfBegin(lrt) ==
    /\ st.pc = "idle"
    /\ st' = [pc |-> "mixture", lrt |-> lrt, _lrt |-> Clamp(lrt, self[1].tol)]
    /\ UNCHANGED <<self, est, res, et, wr, fin, ncalls>>

\* What a load of attribute a sees: its value, the call that wrote it and
\* whether that call had returned.
Load(a) ==
    [v |-> self[1][a][1], by |-> wr[a], finished |-> wr[a] \in fin]

SfRaise == [pc |-> "done", lrt |-> st.lrt, outcome |-> "AttributeError"]

\* line 133, load of self.mixture
SfLoadMixture ==
    /\ st.pc = "mixture"
    /\ st' = IF self[1].mixture = Unset THEN SfRaise
             ELSE [pc |-> "scale", lrt |-> st.lrt, _lrt |-> st._lrt,
                   mixture |-> Load("mixture")]
    /\ UNCHANGED <<self, est, res, et, wr, fin, ncalls>>

\* line 133, load of self.scale
SfLoadScale ==
    /\ st.pc = "scale"
    /\ st' = IF self[1].scale = Unset THEN SfRaise
             ELSE [pc |-> "dof", lrt |-> st.lrt, _lrt |-> st._lrt,
                   mixture |-> st.mixture, scale |-> Load("scale")]
    /\ UNCHANGED <<self, est, res, et, wr, fin, ncalls>>

\* line 133, load of self.dof, then the product
SfLoadDof ==
    /\ st.pc = "dof"
    /\ st' = IF self[1].dof = Unset THEN SfRaise
             ELSE LET d == Load("dof")
                  IN  [pc |-> "done", lrt |-> st.lrt, outcome |-> "returned",
                       mixture |-> st.mixture, scale |-> st.scale, dof |-> d,
                       pv |-> PValues(st._lrt, st.mixture.v, st.scale.v, d.v)]
    /\ UNCHANGED <<self, est, res, et, wr, fin, ncalls>>

\* line 134
SfReturn ==
    /\ st.pc = "done"
    /\ st' = Idle
    /\ UNCHANGED <<self, est, res, et, wr, fin, ncalls>>

NextThreads ==
    \/ \E lrt \in ThreadSamples : EstBegin(lrt)
    \/ EstMixture
    \/ EstLocals
    \/ EstCell
    \/ EstSetScale
    \/ EstSetDof
    \/ EstReturn
    \/ \E lrt \in ThreadSfInputs : SfBegin(lrt)
    \/ SfLoadMixture
    \/ SfLoadScale
    \/ SfLoadDof
    \/ SfReturn

SpecThreads == InitThreads /\ [][NextThreads]_vars

\* ------------------------------------------------------------ claims

\* The ranges the specification documents for the constructor's arguments.
ValidConfig(o) ==
    /\ o.scale_min < o.scale_max
    /\ o.dof_min < o.dof_max
    /\ o.n_intervals >= 2
    /\ 0 < o.qmax.num /\ o.qmax.num <= o.qmax.den
    /\ o.tol >= 0

\* C1: construction fails whenever scale_min >= scale_max, dof_min >= dof_max,
\* n_intervals < 2, qmax outside (0, 1] or tol < 0; so every object that
\* exists was built from arguments inside those ranges.
C1_OnlyValidConfigurationsConstruct == self # <<>> => ValidConfig(self[1])

\* C2: under a configuration inside the documented ranges, a call of estimate
\* on a non-empty sample in which no statistic exceeds tol ends in an
\* EstimationError instead of returning normally.
C2_EmptyTailRaises ==
    (/\ est # <<>>
     /\ ValidConfig(self[1])
     /\ \A i \in 1..Len(est[1].lrt) : est[1].lrt[i] <= self[1].tol)
        => est[1].outcome = "EstimationError"

\* C3: an sf call interleaved with a re-estimation computes its p-values from
\* the mixture, scale and dof of one single estimate call that had returned.
C3_SfReadsOneCompletedEstimate ==
    (st.pc = "done" /\ st.outcome = "returned") =>
        /\ st.mixture.by = st.scale.by
        /\ st.scale.by = st.dof.by
        /\ st.mixture.finished /\ st.scale.finished /\ st.dof.finished

\* An object is fitted once mixture, scale and dof have all been assigned.
Fitted(o) == o.mixture # Unset /\ o.scale # Unset /\ o.dof # Unset

\* C4: on a fitted object sf returns one p-value per input statistic, each of
\* them a finite number p with 0 <= p <= mixture.
C4_SfWithinMixture ==
    (res # <<>> /\ Fitted(self[1])) =>
        /\ res[1].outcome = "returned"
        /\ Len(res[1].pv) = Len(res[1].lrt)
        /\ \A i \in 1..Len(res[1].pv) :
              /\ res[1].pv[i].k = "fin"
              /\ 0 <= res[1].pv[i].v
              /\ res[1].pv[i].v * self[1].mixture[1].den
                    <= self[1].mixture[1].num * U

\* C4 witness: sf returned two p-values, one strictly between 0 and the
\* mixture, for a mixture strictly between 0 and 1.
C4_Witness ==
    /\ res # <<>> /\ Fitted(self[1])
    /\ res[1].outcome = "returned"
    /\ Len(res[1].lrt) = 2
    /\ 0 < self[1].mixture[1].num
    /\ self[1].mixture[1].num < self[1].mixture[1].den
    /\ \E i \in 1..2 :
          /\ 0 < res[1].pv[i].v
          /\ res[1].pv[i].v * self[1].mixture[1].den
                < (self[1].mixture[1].num * U) - self[1].mixture[1].den

\* C5: after estimate on a sample of length n the object's mixture is
\* 1 - (number of x in the whole sample with x <= tol) / n, whatever qmax, the
\* scale/dof bounds and n_intervals are.
C5_MixtureClosedForm ==
    est # <<>> =>
        LET lrt == est[1].lrt
            n == Len(lrt)
            c == Cardinality({i \in 1..n : lrt[i] <= self[1].tol})
            m == self[1].mixture
        IN  /\ m # Unset
            /\ m[1].den > 0
            /\ m[1].num * n = (n - c) * m[1].den

\* C5 witness: a sample holding a statistic equal to a positive tol, one below
\* it and one above it, fitted on a tail shorter than the sample.
C5_Witness ==
    /\ est # <<>>
    /\ self[1].tol > 0
    /\ \E i, j, k \in 1..Len(est[1].lrt) :
          /\ est[1].lrt[i] = self[1].tol
          /\ est[1].lrt[j] < self[1].tol
          /\ est[1].lrt[k] > self[1].tol
    /\ Len(est[1].lrt_sorted) < Len(est[1].lrt)
    /\ self[1].mixture = Set(Q(1, 3))

\* C6: under a configuration inside the documented ranges, for a sample in
\* which every statistic is <= tol, estimate followed by sf yields mixture = 0
\* and p-values that are all zero.
C6_AllPointMassGivesZeros ==
    (/\ est # <<>>
     /\ ValidConfig(self[1])
     /\ \A i \in 1..Len(est[1].lrt) : est[1].lrt[i] <= self[1].tol
     /\ res # <<>>) =>
        /\ self[1].mixture = Set(Q(0, 1))
        /\ res[1].outcome = "returned"
        /\ Len(res[1].pv) = Len(res[1].lrt)
        /\ \A i \in 1..Len(res[1].pv) : res[1].pv[i] = Fin(0)

Count(s, v) == Cardinality({i \in 1..Len(s) : s[i] = v})

\* C7: under a configuration inside the documented ranges (so qmax is in
\* (0, 1]) and with n_false >= 1, the tail and q both have
\* n_fitting = ceil(qmax * n_false) elements, 1 <= n_fitting <= n_false, the
\* tail is the n_fitting largest statistics in descending order and q[i] is
\* i / (n_false - 1), the (i+1)-th of n_false equally spaced points of [0, 1].
C7_TailAndQuantiles ==
    (/\ est # <<>>
     /\ est[1].n_false >= 1
     /\ ValidConfig(self[1])) =>
        LET e == est[1]
            k == e.n_fitting
        IN  /\ (k - 1) * self[1].qmax.den < self[1].qmax.num * e.n_false
            /\ self[1].qmax.num * e.n_false <= k * self[1].qmax.den
            /\ 1 <= k /\ k <= e.n_false
            /\ Len(e.lrt_sorted) = k
            /\ Len(e.q) = k
            /\ \A i \in 1..(Len(e.lrt_sorted) - 1) :
                  e.lrt_sorted[i] >= e.lrt_sorted[i + 1]
            /\ \A v \in 0..MaxStat :
                  Count(e.lrt_sorted, v) =
                      Min(Count(e.lrt, v),
                          Max(0, k - CountGreater(e.lrt, v)))
            /\ \A i \in 1..Len(e.q) :
                  e.q[i].num * (e.n_false - 1) = i * e.q[i].den

\* The error of grid cell idx (scale outer, dof inner) for the last call.
CellError(idx) ==
    LET o == self[1]
        n == o.n_intervals
    IN  CellMSE(LogQ(est[1].q), est[1].lrt_sorted,
                ScaleGrid(o)[(idx \div n) + 1], DofGrid(o)[(idx % n) + 1])

Cells == 0..(self[1].n_intervals * self[1].n_intervals - 1)

\* Cell c holds what the call chose: its grid point, its error as the recorded
\* minimum, no cell with a smaller error, and a larger error in every cell
\* visited before it.
Chosen(c) ==
    LET o == self[1]
        n == o.n_intervals
    IN  /\ o.scale = Set(ScaleGrid(o)[(c \div n) + 1])
        /\ o.dof = Set(DofGrid(o)[(c % n) + 1])
        /\ est[1].MSE_opt = CellError(c)
        /\ \A k \in Cells : ~FLess(CellError(k), CellError(c))
        /\ \A k \in Cells : k < c => FLess(CellError(c), CellError(k))

\* C8: the (scale, dof) chosen by estimate is a point of the n_intervals x
\* n_intervals grid, its error is the minimum over all cells, and it is the
\* first cell in scale-outer, dof-inner order that reaches the minimum.
C8_FirstGridMinimum ==
    (est # <<>> /\ "scale" \in est[1].assigned) => \E c \in Cells : Chosen(c)

\* C8 witness: the chosen cell is not the first one and a later cell ties
\* with it.
C8_Witness ==
    /\ est # <<>> /\ "scale" \in est[1].assigned
    /\ \E c \in Cells :
          /\ Chosen(c)
          /\ c > 0
          /\ \E k \in Cells : k > c /\ CellError(k) = CellError(c)

\* C9: whenever estimate_chi2mixture returns without raising (the object
\* configured inside the documented ranges), mixture, scale and dof were all
\* assigned by that call.
C9_ReturnAssignsAll ==
    (est # <<>> /\ ValidConfig(self[1]) /\ est[1].outcome = "returned")
        => est[1].assigned = {"mixture", "scale", "dof"}

\* C10: every statistic x of the sample that estimate counts as point mass
\* (x <= tol, x = tol included) gets from sf a p-value equal to the mixture
\* (the object configured inside the documented ranges).
C10_PointMassGetsMixture ==
    (/\ est # <<>> /\ ValidConfig(self[1])
     /\ res # <<>> /\ res[1].outcome = "returned") =>
        \A i \in 1..Len(res[1].lrt) :
            (/\ res[1].lrt[i] <= self[1].tol
             /\ \E j \in 1..Len(est[1].lrt) : est[1].lrt[j] = res[1].lrt[i])
                => res[1].pv[i] =
                      Fin((self[1].mixture[1].num * U)
                              \div self[1].mixture[1].den)

====
